---------------------------- MODULE Spec2Model ----------------------------
(***************************************************************************)
(* Model of the fxconvert backend (src/app.py): the three Flask handlers   *)
(* /convert, /historical and /chatbot, the upstream exchange-rate API as a *)
(* nondeterministic collaborator, the chatbot's three regular expressions  *)
(* (matched character by character, with Python's leftmost / greedy        *)
(* backtracking order) and the stride sampler of /historical.              *)
(*                                                                         *)
(* Strings are sequences of one-character strings.  The alphabet of the    *)
(* inputs holds no newline, so `.` matches every character and `\s`        *)
(* matches the blank only.                                                 *)
(***************************************************************************)
EXTENDS Integers, Sequences, FiniteSets, TLC

(***************************************************************************)
(* Characters.                                                             *)
(***************************************************************************)
LowerSeq == << "a","b","c","d","e","f","g","h","i","j","k","l","m",
               "n","o","p","q","r","s","t","u","v","w","x","y","z" >>

UpperSeq == << "A","B","C","D","E","F","G","H","I","J","K","L","M",
               "N","O","P","Q","R","S","T","U","V","W","X","Y","Z" >>

DigitSeq == << "0","1","2","3","4","5","6","7","8","9" >>

LowerSet == { LowerSeq[i] : i \in 1..26 }

UpperSet == { UpperSeq[i] : i \in 1..26 }

DigitSet == { DigitSeq[i] : i \in 1..10 }

IndexIn(seq, c) == CHOOSE i \in 1..Len(seq) : seq[i] = c

\* str.upper() / str.lower() on one character
UpperChar(c) == IF c \in LowerSet THEN UpperSeq[IndexIn(LowerSeq, c)] ELSE c

LowerChar(c) == IF c \in UpperSet THEN LowerSeq[IndexIn(UpperSeq, c)] ELSE c

\* str.upper()
Upper(s) == [ i \in 1..Len(s) |-> UpperChar(s[i]) ]

\* str.lower()
Lower(s) == [ i \in 1..Len(s) |-> LowerChar(s[i]) ]

\* the character classes of the regular expressions: \d, [a-zA-Z], \s
Class(c) == IF c \in DigitSet THEN "d"
            ELSE IF c \in LowerSet \cup UpperSet THEN "l"
            ELSE IF c = " " THEN "s"
            ELSE "o"

RECURSIVE RunLen(_, _, _)
\* number of consecutive characters of class cls in m from position p on:
\* what a greedy \d*, \s* or [a-zA-Z]* consumes at p
RunLen(m, p, cls) ==
    IF p > Len(m) \/ p < 1 THEN 0
    ELSE IF Class(m[p]) # cls THEN 0
    ELSE 1 + RunLen(m, p + 1, cls)

RECURSIVE RunLenBack(_, _, _)
\* the same, scanning backwards from position p
RunLenBack(m, p, cls) ==
    IF p < 1 \/ p > Len(m) THEN 0
    ELSE IF Class(m[p]) # cls THEN 0
    ELSE 1 + RunLenBack(m, p - 1, cls)

\* str.strip()
Strip(s) ==
    LET lead == RunLen(s, 1, "s")
        trail == RunLenBack(s, Len(s), "s")
    IN  IF lead = Len(s) THEN << >> ELSE SubSeq(s, lead + 1, Len(s) - trail)

\* the literal lit occurs in m at position p
LitAt(m, p, lit) ==
    /\ p >= 1
    /\ p + Len(lit) - 1 <= Len(m)
    /\ \A i \in 1..Len(lit) : m[p + i - 1] = lit[i]

\* n characters of class cls start at position p
ClassAt(m, p, n, cls) ==
    /\ p >= 1
    /\ p + n - 1 <= Len(m)
    /\ \A i \in 0..(n - 1) : Class(m[p + i]) = cls

NoMatch == [ matched |-> FALSE ]


(***************************************************************************)
(* The chatbot's three patterns.  XAt(m, s) is the match re.search finds   *)
(* when it tries start position s: the first one in the backtracking order *)
(* of the pattern; XSearch(m) is the match at the leftmost start that has  *)
(* one.                                                                    *)
(***************************************************************************)
Connectors == << <<"t","o">>, <<"i","n">>, << >> >>

\* (\d+\.?\d*)\s*([a-zA-Z]{2,}|rupee|yen|dollar|euro)\s*(?:to|in)?\s*
\* ([a-zA-Z]{2,}|rupee|yen|dollar|euro)
\* The number and the blanks are consumed greedily and cannot give back a
\* character (what follows must start with a letter).  Group 2 takes k
\* letters, longest first; the connector is tried as "to", "in", absent;
\* group 3 takes the whole run of letters.  The alternatives rupee, yen,
\* dollar and euro are runs of letters, so they add no match.
Rule1At(m, s) ==
    IF ~ClassAt(m, s, 1, "d") THEN NoMatch
    ELSE
      LET d1 == RunLen(m, s, "d")
          p1 == s + d1
          p2 == IF LitAt(m, p1, <<".">>) THEN p1 + 1 ELSE p1
          numEnd == p2 + RunLen(m, p2, "d")
          p == numEnd + RunLen(m, numEnd, "s")
          mL == RunLen(m, p, "l")
          G3Start(k, c) ==
              LET q == p + k + RunLen(m, p + k, "s")
              IN  IF Connectors[c] = << >> THEN q
                  ELSE IF LitAt(m, q, Connectors[c])
                       THEN q + 2 + RunLen(m, q + 2, "s")
                       ELSE 0
          Ok(k, c) == G3Start(k, c) > 0 /\ RunLen(m, G3Start(k, c), "l") >= 2
          cands == { kc \in (2..mL) \X (1..3) : Ok(kc[1], kc[2]) }
      IN  IF cands = {} THEN NoMatch
          ELSE
            LET best == CHOOSE kc \in cands : \A o \in cands :
                            \/ kc[1] > o[1]
                            \/ kc[1] = o[1] /\ kc[2] <= o[2]
                g3 == G3Start(best[1], best[2])
            IN  [ matched |-> TRUE,
                  amount |-> SubSeq(m, s, numEnd - 1),
                  from |-> SubSeq(m, p, p + best[1] - 1),
                  to |-> SubSeq(m, g3, g3 + RunLen(m, g3, "l") - 1) ]

\* \d{4}-\d{2}-\d{2}
DateAt(m, u) ==
    /\ ClassAt(m, u, 4, "d")
    /\ LitAt(m, u + 4, <<"-">>)
    /\ ClassAt(m, u + 5, 2, "d")
    /\ LitAt(m, u + 7, <<"-">>)
    /\ ClassAt(m, u + 8, 2, "d")

\* on\s*(\d{4}-\d{2}-\d{2}) at position t
OnDateAt(m, t) ==
    /\ LitAt(m, t, <<"o","n">>)
    /\ DateAt(m, t + 2 + RunLen(m, t + 2, "s"))

\* last\s*(\d+)\s*days at position t
LastDaysAt(m, t) ==
    /\ LitAt(m, t, <<"l","a","s","t">>)
    /\ LET u == t + 4 + RunLen(m, t + 4, "s")
           n == RunLen(m, u, "d")
       IN  /\ n >= 1
           /\ LitAt(m, u + n + RunLen(m, u + n, "s"), <<"d","a","y","s">>)

SetMax(S) == CHOOSE x \in S : \A y \in S : y <= x

SetMin(S) == CHOOSE x \in S : \A y \in S : x <= y

\* (usd|eur|inr|jpy|gbp|[a-zA-Z]{3})\s*(?:to)?\s*(usd|...|[a-zA-Z]{3})
\* .*on\s*(\d{4}-\d{2}-\d{2})
\* The named codes are three letters, so each group is any three letters.
\* "to" is tried present, then absent; the greedy .* ends at the last
\* "on <date>" after group 2.
Rule2At(m, s) ==
    IF ~ClassAt(m, s, 3, "l") THEN NoMatch
    ELSE
      LET b == s + 3 + RunLen(m, s + 3, "s")
          G2Start(c) ==
              IF c = 2 THEN b
              ELSE IF LitAt(m, b, <<"t","o">>)
                   THEN b + 2 + RunLen(m, b + 2, "s")
                   ELSE 0
          Ons(g) == { t \in (g + 3)..Len(m) : OnDateAt(m, t) }
          Ok(c) == /\ G2Start(c) > 0
                   /\ ClassAt(m, G2Start(c), 3, "l")
                   /\ Ons(G2Start(c)) # {}
          cands == { c \in 1..2 : Ok(c) }
      IN  IF cands = {} THEN NoMatch
          ELSE
            LET g == G2Start(SetMin(cands))
                t == SetMax(Ons(g))
                u == t + 2 + RunLen(m, t + 2, "s")
            IN  [ matched |-> TRUE,
                  from |-> SubSeq(m, s, s + 2),
                  to |-> SubSeq(m, g, g + 2),
                  date |-> SubSeq(m, u, u + 9) ]

\* (usd|...|[a-zA-Z]{3})\s*to\s*(usd|...|[a-zA-Z]{3}).*last\s*(\d+)\s*days
Rule3At(m, s) ==
    IF ~ClassAt(m, s, 3, "l") THEN NoMatch
    ELSE
      LET b == s + 3 + RunLen(m, s + 3, "s")
          g == b + 2 + RunLen(m, b + 2, "s")
          Lasts == { t \in (g + 3)..Len(m) : LastDaysAt(m, t) }
      IN  IF ~ ( /\ LitAt(m, b, <<"t","o">>)
                 /\ ClassAt(m, g, 3, "l")
                 /\ Lasts # {} )
          THEN NoMatch
          ELSE
            LET t == SetMax(Lasts)
                u == t + 4 + RunLen(m, t + 4, "s")
            IN  [ matched |-> TRUE,
                  from |-> SubSeq(m, s, s + 2),
                  to |-> SubSeq(m, g, g + 2),
                  days |-> SubSeq(m, u, u + RunLen(m, u, "d") - 1) ]

\* re.search: the match at the leftmost start position that has one
Rule1Search(m) ==
    LET starts == { s \in 1..Len(m) : Rule1At(m, s).matched }
    IN  IF starts = {} THEN NoMatch ELSE Rule1At(m, SetMin(starts))

Rule2Search(m) ==
    LET starts == { s \in 1..Len(m) : Rule2At(m, s).matched }
    IN  IF starts = {} THEN NoMatch ELSE Rule2At(m, SetMin(starts))

Rule3Search(m) ==
    LET starts == { s \in 1..Len(m) : Rule3At(m, s).matched }
    IN  IF starts = {} THEN NoMatch ELSE Rule3At(m, SetMin(starts))

(***************************************************************************)
(* Numbers.  A float is [kind |-> "none"] (Python's None), [kind |-> "nan"]*)
(* or the decimal [kind |-> "num", neg, digits, scale] = digits / 10^scale.*)
(***************************************************************************)
NoneVal == [ kind |-> "none" ]

NaNVal == [ kind |-> "nan" ]

DigitVal(c) == IndexIn(DigitSeq, c) - 1

RECURSIVE DigitsVal(_)
\* int() of a run of decimal digits
DigitsVal(ds) ==
    IF ds = << >> THEN 0
    ELSE 10 * DigitsVal(SubSeq(ds, 1, Len(ds) - 1)) + DigitVal(ds[Len(ds)])

\* float(text).  The inputs of the model carry no exponent, underscore or
\* infinity; on every other text this is Python's float(): blanks around
\* the text are dropped, a sign may lead, digits with at most one point and
\* at least one digit are a number, "nan" is NaN, anything else is a
\* ValueError, reported as [kind |-> "none"].
ParseFloat(text) ==
    LET s == Lower(Strip(text))
        signed == Len(s) >= 1 /\ s[1] \in {"+", "-"}
        body == IF signed THEN SubSeq(s, 2, Len(s)) ELSE s
        d1 == RunLen(body, 1, "d")
        hasDot == LitAt(body, d1 + 1, <<".">>)
        p2 == IF hasDot THEN d1 + 2 ELSE d1 + 1
        d2 == RunLen(body, p2, "d")
    IN  IF body = <<"n","a","n">> THEN NaNVal
        ELSE IF d1 + d2 >= 1 /\ p2 + d2 = Len(body) + 1
        THEN [ kind |-> "num",
               neg |-> signed /\ s[1] = "-",
               digits |-> DigitsVal(SubSeq(body, 1, d1) \o SubSeq(body, p2, p2 + d2 - 1)),
               scale |-> d2 ]
        ELSE NoneVal

\* `if amount is None` in place of `if not amount`
NotNone(x) == x.kind # "none"

\* bool(x) of a float or None: `if not amount`, `if amount and converted`
Truthy(x) == x.kind = "nan" \/ (x.kind = "num" /\ x.digits # 0)

\* a query argument: absent, or present with a text
Absent == [ present |-> FALSE ]

Given(text) == [ present |-> TRUE, value |-> text ]

\* request.args.get(name, default=dflt, type=str)
ArgStr(arg, dflt) == IF arg.present THEN arg.value ELSE dflt

\* request.args.get(name, type=float): None when absent or not a float
ArgFloat(arg) == IF arg.present THEN ParseFloat(arg.value) ELSE NoneVal

(***************************************************************************)
(* Dates are <<year, month, day>>; datetime.date arithmetic goes through   *)
(* the proleptic Gregorian ordinal, as in the standard library.            *)
(***************************************************************************)
IsLeap(y) == y % 4 = 0 /\ (y % 100 # 0 \/ y % 400 = 0)

DaysInMonth(y, m) ==
    IF m = 2 THEN (IF IsLeap(y) THEN 29 ELSE 28)
    ELSE IF m \in {4, 6, 9, 11} THEN 30 ELSE 31

RECURSIVE DaysBeforeMonth(_, _)
DaysBeforeMonth(y, m) ==
    IF m = 1 THEN 0 ELSE DaysBeforeMonth(y, m - 1) + DaysInMonth(y, m - 1)

DaysBeforeYear(y) ==
    (y - 1) * 365 + (y - 1) \div 4 - (y - 1) \div 100 + (y - 1) \div 400

\* date.toordinal()
ToOrdinal(date) ==
    DaysBeforeYear(date[1]) + DaysBeforeMonth(date[1], date[2]) + date[3]

\* date.fromordinal(n), n >= 1
FromOrdinal(n) ==
    LET n0 == n - 1
        n400 == n0 \div 146097
        r400 == n0 % 146097
        n100 == r400 \div 36524
        r100 == r400 % 36524
        n4 == r100 \div 1461
        r4 == r100 % 1461
        n1 == r4 \div 365
        r1 == r4 % 365
        year == n400 * 400 + n100 * 100 + n4 * 4 + n1 + 1
    IN  IF n1 = 4 \/ n100 = 4 THEN << year - 1, 12, 31 >>
        ELSE
          LET month == CHOOSE m \in 1..12 :
                  /\ DaysBeforeMonth(year, m) <= r1
                  /\ r1 < DaysBeforeMonth(year, m) + DaysInMonth(year, m)
          IN  << year, month, r1 - DaysBeforeMonth(year, month) + 1 >>

\* date - timedelta(days=k) is defined when the ordinal stays >= 1
\* (OverflowError otherwise)
DateInRange(date, k) == ToOrdinal(date) - k >= 1

\* date - timedelta(days=k)
DateMinusDays(date, k) == FromOrdinal(ToOrdinal(date) - k)

\* datetime(1999, 1, 4).date()
EpochStart == << 1999, 1, 4 >>

(***************************************************************************)
(* The sampler of /historical.                                             *)
(***************************************************************************)
MaxPoints == 100

Max2(a, b) == IF a >= b THEN a ELSE b

\* a step that is never below 2
StepAtLeastTwo(n, maxPoints) == Max2(2, n \div maxPoints)

\* step = max(1, len(sorted_data) // 100)
Step(n, maxPoints) == Max2(1, n \div maxPoints)

\* enumerate(series): the pairs << i, series[i] >>, i from 0
Enumerate(series) == [ i \in 1..Len(series) |-> << i - 1, series[i] >> ]

\* for i, x in enumerate(series): if i % step == 0: keep x
\* (the kept pairs << i, x >>, in order)
Sample(series, maxPoints) ==
    SelectSeq(Enumerate(series),
              LAMBDA p : p[1] % Step(Len(series), maxPoints) = 0)

\* the items as the upstream sent them
UnsortedItems(items) == items

\* sorted(res["rates"].items()): the keys are distinct ISO dates, so the
\* pairs are ordered by key
SortedItems(items) == SortSeq(items, LAMBDA a, b : a[1] < b[1])

(***************************************************************************)
(* Texts of the program and of the inputs.                                 *)
(***************************************************************************)
USD == <<"U","S","D">>

INR == <<"I","N","R">>

JPY == <<"J","P","Y">>

EUR == <<"E","U","R">>

GBP == <<"G","B","P">>

\* mapping.get(token.lower(), token.upper()) with the chatbot's synonym table
MapCode(token) ==
    LET l == Lower(token)
    IN  IF l = <<"r","u","p","e","e">> THEN INR
        ELSE IF l = <<"y","e","n">> THEN JPY
        ELSE IF l = <<"d","o","l","l","a","r">> THEN USD
        ELSE IF l = <<"e","u","r","o">> THEN EUR
        ELSE IF l = <<"p","o","u","n","d">> THEN GBP
        ELSE Upper(token)

\* a range table that takes a year to be 366 days
RangeDaysLongYear(token) ==
    IF token \in { <<"7","d">>, <<"7","d","a","y","s">> } THEN 7
    ELSE IF token \in { <<"3","0","d">>, <<"1","m">>, <<"3","0","d","a","y","s">> } THEN 30
    ELSE IF token \in { <<"3","6","5","d">>, <<"1","y">>, <<"y","e","a","r">> } THEN 366
    ELSE IF token \in { <<"a","l","l">>, <<"m","a","x">> } THEN 0
    ELSE -1

\* the range tokens of /historical and the days each goes back
\* (0 stands for the fixed start date)
RangeDays(token) ==
    IF token \in { <<"7","d">>, <<"7","d","a","y","s">> } THEN 7
    ELSE IF token \in { <<"3","0","d">>, <<"1","m">>, <<"3","0","d","a","y","s">> } THEN 30
    ELSE IF token \in { <<"3","6","5","d">>, <<"1","y">>, <<"y","e","a","r">> } THEN 365
    ELSE IF token \in { <<"a","l","l">>, <<"m","a","x">> } THEN 0
    ELSE -1

\* the if / elif chain of /historical: the start date, or << >> for the
\* final else
StartDate(token, endDate) ==
    IF RangeDays(token) > 0 THEN DateMinusDays(endDate, RangeDays(token))
    ELSE IF RangeDays(token) = 0 THEN EpochStart
    ELSE << >>

(***************************************************************************)
(* The upstream API.  A reply is any JSON object: with or without "rates", *)
(* and the rates with or without the target code.                          *)
(***************************************************************************)
Num(v) == [ kind |-> "num", neg |-> FALSE, digits |-> v, scale |-> 0 ]

RateValues == { Num(0), Num(83) }

NoRates == [ hasRates |-> FALSE, rates |-> << >> ]

\* replies of /latest and /{date}
RateReplies(to) ==
    { NoRates, [ hasRates |-> TRUE, rates |-> << >> ] }
    \cup { [ hasRates |-> TRUE, rates |-> (to :> v) ] : v \in RateValues }

MaxSeriesLen == 203

MaxChatSeriesLen == 2

\* the i-th day of a series reply: its key (an ISO date, abstracted to its
\* rank in date order) and the rates of that day
RateOf(i) == Num(1 + ((i * 7) % 5))

SeriesItem(i, to, withTarget) ==
    << i, IF withTarget THEN (to :> RateOf(i)) ELSE << >> >>

Min2(a, b) == IF a <= b THEN a ELSE b

\* the upstream holds at most one entry per day of the span it is asked for
SpanLen(start, end) == ToOrdinal(end) - ToOrdinal(start) + 1

\* replies of /{start}..{end}: up to maxLen days, either in date order or
\* with the latest day first (a JSON object promises no order)
SeriesReplies(to, maxLen) ==
    { NoRates }
    \cup { [ hasRates |-> TRUE,
             rates |-> [ i \in 1..n |->
                           SeriesItem(IF inOrder THEN i ELSE IF i = 1 THEN n ELSE i - 1,
                                      to, TRUE) ] ] :
           n \in 0..maxLen, inOrder \in BOOLEAN }
    \cup { [ hasRates |-> TRUE,
             rates |-> [ i \in 1..n |-> SeriesItem(i, to, FALSE) ] ] : n \in 1..2 }

\* the test of rule 3, `"rates" in res`, used for a single rate
HasRatesOnly(res, to) == res.hasRates

\* "rates" in res and to_currency in res["rates"]
HasTarget(res, to) == res.hasRates /\ to \in DOMAIN res.rates

\* a call that is sent again after the first reply
UpstreamGetTwice(log, call) == Append(Append(log, call), call)

\* requests.get(url, params): one call, recorded with what came back
UpstreamGet(log, call) == Append(log, call)

Call(rule, endpoint, from, to, arg, res) ==
    [ rule |-> rule, endpoint |-> endpoint, from |-> from, to |-> to, arg |-> arg,
      hasRates |-> res.hasRates,
      n |-> Cardinality(DOMAIN res.rates),
      hasTarget |-> res.hasRates /\ endpoint # "range" /\ to \in DOMAIN res.rates ]

(***************************************************************************)
(* The requests the model sends.                                           *)
(***************************************************************************)
RECURSIVE JoinSp(_)
\* the non-empty parts, separated by one blank
JoinSp(parts) ==
    IF parts = << >> THEN << >>
    ELSE LET rest == JoinSp(Tail(parts))
         IN  IF Head(parts) = << >> THEN rest
             ELSE IF rest = << >> THEN Head(parts)
             ELSE Head(parts) \o <<" ">> \o rest

Prefixes == { << >>, <<"C","o","n","v","e","r","t">>, <<"R","a","t","e"," ","o","f">> }

AmountWords == { << >>, <<"0">>, <<"1","0","0">> }

FromWords == { USD, <<"u","s">>, <<"d","o","l","l","a","r","s">> }

ConnWords == { << >>, <<"t","o">>, <<"i","n">> }

ToWords == { INR, <<"r","u","p","e","e">> }

DateWords == { << >>, <<"o","n"," ","2","0","2","3","-","0","1","-","0","5">> }

LastWords == { << >>,
               <<"l","a","s","t"," ","3","0"," ","d","a","y","s">>,
               <<"l","a","s","t"," ","8","0","0","0","0","0"," ","d","a","y","s">> }

OtherMessages ==
    { <<"h","e","l","l","o"," ","t","h","e","r","e">>,
      <<" ","2",".","5"," ","p","o","u","n","d"," ","y","e","n"," ">>,
      <<"1","0","0","u","s","d","t","o","i","n","r">>,
      <<"0",".","0"," ","e","u","r","o"," ","i","n"," ","d","o","l","l","a","r">> }

Messages ==
    { JoinSp(<< pre, amt, from, conn, to, dt, last >>) :
        pre \in Prefixes, amt \in AmountWords, from \in FromWords,
        conn \in ConnWords, to \in ToWords, dt \in DateWords, last \in LastWords }
    \cup OtherMessages

AmountArgs ==
    { Absent, Given(<<"0">>), Given(<<"0",".","0">>), Given(<<"-","0">>),
      Given(<<"a","b","c">>), Given(<< >>), Given(<<"5">>), Given(<<"2",".","5">>),
      Given(<<"-","3">>), Given(<<"n","a","n">>) }

CodeArgs == { Absent, Given(<<"e","u","r">>), Given(<<"u","s">>) }

\* the << from, to >> arguments sent to /historical
HistCodeArgs == { << Absent, Absent >>, << Given(<<"u","s">>), Given(<<"e","u","r">>) >> }

RangeArgs ==
    { Absent, Given(<<"7","d">>), Given(<<"7","D","A","Y","S">>), Given(<<"3","0","d">>),
      Given(<<"1","M">>), Given(<<"3","0","d","a","y","s">>), Given(<<"3","6","5","d">>),
      Given(<<"1","y">>), Given(<<"Y","e","a","r">>), Given(<<"a","l","l">>),
      Given(<<"M","A","X">>), Given(<<"2","w">>), Given(<< >>), Given(<<"7"," ","d">>),
      Given(<<"a","l","l","t","i","m","e">>) }

\* the dates datetime.now().date() returns in the model
Todays == { << 2024, 3, 1 >>, << 2026, 11, 4 >> }

(***************************************************************************)
(* State: the handling of one request.  The handlers share no state and   *)
(* keep nothing between requests, so a behaviour is one request, started  *)
(* from "idle".                                                            *)
(*   pc     where the server is: "idle" before the first request, "rule1", *)
(*          "rule2", "rule3" inside chatbot(), "done" after a response,    *)
(*          "raised" after an uncaught exception                           *)
(*   route  the route of the current request                               *)
(*   req    its arguments                                                  *)
(*   msg    chatbot's `message` after lower().strip()                      *)
(*   calls  the upstream calls made for the current request, in order      *)
(*   resp   the response                                                   *)
(***************************************************************************)
VARIABLES pc, route, req, msg, calls, resp

vars == << pc, route, req, msg, calls, resp >>

NoResp == [ status |-> 0, kind |-> "none" ]

ErrorResp(status, text) == [ status |-> status, kind |-> "error", error |-> text ]

\* an uncaught exception: Flask answers 500
Raised(rule, name) == [ status |-> 500, kind |-> "exception", rule |-> rule, error |-> name ]

\* converted / amount
Quot(a, b) == [ kind |-> "quot", num |-> a, den |-> b ]

Init ==
    /\ pc = "idle"
    /\ route = "none"
    /\ req = << >>
    /\ msg = << >>
    /\ calls = << >>
    /\ resp = NoResp

\* convert_currency()
Convert(amountArg, fromArg, toArg) ==
    /\ pc = "idle"
    /\ route' = "convert"
    /\ req' = [ amount |-> amountArg, from |-> fromArg, to |-> toArg ]
    /\ msg' = << >>
    /\ LET amount == ArgFloat(amountArg)
           from == Upper(ArgStr(fromArg, USD))
           to == Upper(ArgStr(toArg, INR))
       IN  IF ~Truthy(amount)
           THEN /\ calls' = << >>
                /\ resp' = ErrorResp(400, "Missing amount")
                /\ pc' = "done"
           ELSE \E res \in RateReplies(to) :
                /\ calls' = UpstreamGet(<< >>, Call(0, "latest", from, to, amount, res))
                /\ IF ~res.hasRates
                   THEN /\ resp' = Raised(0, "KeyError")
                        /\ pc' = "raised"
                   ELSE LET converted == IF to \in DOMAIN res.rates
                                         THEN res.rates[to] ELSE NoneVal
                            rate == IF Truthy(amount) /\ Truthy(converted)
                                    THEN Quot(converted, amount) ELSE NoneVal
                        IN  /\ resp' = [ status |-> 200, kind |-> "convert",
                                         from |-> from, to |-> to, amount |-> amount,
                                         converted |-> converted, rate |-> rate ]
                            /\ pc' = "done"

\* historical_data()
Historical(fromArg, toArg, rangeArg, today) ==
    /\ pc = "idle"
    /\ route' = "historical"
    /\ req' = [ from |-> fromArg, to |-> toArg, range |-> rangeArg, today |-> today ]
    /\ msg' = << >>
    /\ LET from == Upper(ArgStr(fromArg, USD))
           to == Upper(ArgStr(toArg, INR))
           range == Lower(ArgStr(rangeArg, <<"7","d">>))
           start == StartDate(range, today)
       IN  IF start = << >>
           THEN /\ calls' = << >>
                /\ resp' = ErrorResp(400, "Invalid range. Use 7d, 30d/1m, 365d/1y, or all/max")
                /\ pc' = "done"
           ELSE \E res \in SeriesReplies(to, Min2(MaxSeriesLen, SpanLen(start, today))) :
                /\ calls' = UpstreamGet(<< >>, Call(0, "range", from, to, << start, today >>, res))
                /\ IF ~res.hasRates
                   THEN /\ resp' = ErrorResp(404, "No data available")
                        /\ pc' = "done"
                   ELSE \E sorted \in { SortedItems(res.rates) } :
                        \E kept \in { Sample(sorted, MaxPoints) } :
                            \* rates.append(data[to_currency]) raises KeyError
                            IF \E k \in 1..Len(kept) : to \notin DOMAIN kept[k][2][2]
                            THEN /\ resp' = Raised(0, "KeyError")
                                 /\ pc' = "raised"
                            ELSE /\ resp' = [ status |-> 200, kind |-> "historical",
                                              from |-> from, to |-> to, range |-> range,
                                              dates |-> [ k \in 1..Len(kept) |-> kept[k][2][1] ],
                                              rates |-> [ k \in 1..Len(kept) |-> kept[k][2][2][to] ] ]
                                 /\ pc' = "done"

\* chatbot(), up to the first pattern
ChatbotReceive(raw) ==
    /\ pc = "idle"
    /\ route' = "chatbot"
    /\ req' = [ message |-> raw ]
    /\ msg' = Strip(Lower(raw))
    /\ calls' = << >>
    /\ resp' = NoResp
    /\ pc' = "rule1"

\* x / float(amount) raises ZeroDivisionError
DivisorIsZero(x) == x.kind = "num" /\ x.digits = 0

\* chatbot(), "1. Match conversion queries"
Rule1 ==
    /\ pc = "rule1"
    /\ UNCHANGED << route, req, msg >>
    /\ \E m \in { Rule1Search(msg) } :
           IF ~m.matched
           THEN /\ pc' = "rule2"
                /\ UNCHANGED << calls, resp >>
           ELSE LET from == MapCode(m.from)
                    to == MapCode(m.to)
                    amount == ParseFloat(m.amount)
                IN  \E res \in RateReplies(to) :
                    /\ calls' = UpstreamGet(calls, Call(1, "latest", from, to, amount, res))
                    /\ IF HasTarget(res, to)
                       THEN IF to \notin DOMAIN res.rates
                            THEN /\ resp' = Raised(1, "KeyError")
                                 /\ pc' = "raised"
                            ELSE IF DivisorIsZero(amount)
                            THEN /\ resp' = Raised(1, "ZeroDivisionError")
                                 /\ pc' = "raised"
                            ELSE /\ resp' = [ status |-> 200, kind |-> "convert", rule |-> 1,
                                              response |-> << m.amount, from, res.rates[to], to >>,
                                              converted |-> res.rates[to],
                                              rate |-> Quot(res.rates[to], amount) ]
                                 /\ pc' = "done"
                       ELSE /\ pc' = "rule2"
                            /\ UNCHANGED resp

\* chatbot(), "2. Specific date queries"
Rule2 ==
    /\ pc = "rule2"
    /\ UNCHANGED << route, req, msg >>
    /\ \E m \in { Rule2Search(msg) } :
           IF ~m.matched
           THEN /\ pc' = "rule3"
                /\ UNCHANGED << calls, resp >>
           ELSE LET from == Upper(m.from)
                    to == Upper(m.to)
                IN  \E res \in RateReplies(to) :
                    /\ calls' = UpstreamGet(calls, Call(2, "date", from, to, m.date, res))
                    /\ IF HasTarget(res, to)
                       THEN IF to \notin DOMAIN res.rates
                            THEN /\ resp' = Raised(2, "KeyError")
                                 /\ pc' = "raised"
                            ELSE /\ resp' = [ status |-> 200, kind |-> "rateondate", rule |-> 2,
                                              response |-> << m.date, from, res.rates[to], to >>,
                                              rate |-> res.rates[to],
                                              date |-> m.date ]
                                 /\ pc' = "done"
                       ELSE /\ pc' = "rule3"
                            /\ UNCHANGED resp

Fallback == [ status |-> 200, kind |-> "fallback", rule |-> 4, response |-> "help" ]

\* chatbot(), "3. Historical range queries" and "Default fallback"
Rule3(today) ==
    /\ pc = "rule3"
    /\ UNCHANGED << route, req, msg >>
    /\ \E m \in { Rule3Search(msg) } :
           IF ~m.matched
           THEN /\ resp' = Fallback
                /\ pc' = "done"
                /\ UNCHANGED calls
           ELSE LET from == Upper(m.from)
                    to == Upper(m.to)
                    days == DigitsVal(m.days)
                IN  IF ~DateInRange(today, days)
                    THEN /\ resp' = Raised(3, "OverflowError")
                         /\ pc' = "raised"
                         /\ UNCHANGED calls
                    ELSE \E res \in SeriesReplies(to, MaxChatSeriesLen) :
                         /\ calls' = UpstreamGet(calls,
                                Call(3, "range", from, to,
                                     << DateMinusDays(today, days), today >>, res))
                         /\ IF res.hasRates
                            THEN /\ resp' = [ status |-> 200, kind |-> "range", rule |-> 3,
                                              response |-> << from, to, days >>,
                                              data |-> res.rates ]
                                 /\ pc' = "done"
                            ELSE /\ resp' = Fallback
                                 /\ pc' = "done"

Next ==
    \/ \E a \in AmountArgs, f \in CodeArgs, t \in CodeArgs : Convert(a, f, t)
    \/ \E ft \in HistCodeArgs, r \in RangeArgs, today \in Todays :
          Historical(ft[1], ft[2], r, today)
    \/ \E raw \in Messages : ChatbotReceive(raw)
    \/ Rule1
    \/ Rule2
    \/ \E today \in Todays : Rule3(today)

Spec == Init /\ [][Next]_vars

(***************************************************************************)
(* Properties.                                                             *)
(***************************************************************************)
Finished == pc \in { "done", "raised" }

\* the lookup of a call succeeded, by the test of the rule that made it
CallOk(c) == c.hasRates /\ (c.endpoint = "range" \/ c.hasTarget)

IsCode3(code) == Len(code) = 3 /\ \A i \in 1..Len(code) : code[i] \in UpperSet

ValidDate(d) ==
    /\ d[1] >= 1
    /\ d[2] \in 1..12
    /\ d[3] \in 1..DaysInMonth(d[1], d[2])

\* C1 as stated: no request makes more than one upstream call.
C1_AtMostOneCall == Len(calls) <= 1

\* C1, amended: /convert and /historical make at most one upstream call per
\* request; /chatbot makes at most one call per rule, in rule order, hence
\* at most three, and a later call is made only after the lookup of every
\* earlier call failed.
C1_OneCallPerRule ==
    /\ route \in { "convert", "historical" } => Len(calls) <= 1
    /\ route = "chatbot" =>
          /\ Len(calls) <= 3
          /\ \A i \in 1..Len(calls) :
                /\ calls[i].rule \in 1..3
                /\ \A j \in 1..(i - 1) :
                      calls[j].rule < calls[i].rule /\ ~CallOk(calls[j])

C1_Witness ==
    /\ route = "chatbot"
    /\ pc = "done"
    /\ Len(calls) = 3
    /\ resp.kind = "range"

\* the first rule whose pattern matches the message, 4 when none does
EarliestMatch(m) ==
    IF Rule1Search(m).matched THEN 1
    ELSE IF Rule2Search(m).matched THEN 2
    ELSE IF Rule3Search(m).matched THEN 3
    ELSE 4

\* C2 as stated: the response of /chatbot comes from the earliest rule whose
\* pattern matches the message (the fallback only when none matches).
C2_EarliestMatchDecides ==
    (route = "chatbot" /\ pc = "done") => resp.rule = EarliestMatch(msg)

\* C2, amended: the outcome of /chatbot comes from the earliest rule whose
\* pattern matches AND whose upstream lookup succeeds: calls are made only
\* for rules that match, every matching rule before the deciding one was
\* tried and its lookup failed, no rule after it is tried, a response of
\* rule k rests on a successful lookup of rule k, and rules 1 and 2 raise
\* only after a successful lookup.
C2_EarliestSuccessDecides ==
    (route = "chatbot" /\ Finished) =>
      LET matched == << Rule1Search(msg).matched, Rule2Search(msg).matched,
                        Rule3Search(msg).matched >>
          Tried(k) == \E i \in 1..Len(calls) : calls[i].rule = k
          Ok(k) == \E i \in 1..Len(calls) : calls[i].rule = k /\ CallOk(calls[i])
      IN  /\ \A k \in 1..3 : Tried(k) => matched[k]
          /\ \A k \in 1..3 :
                (k < resp.rule /\ matched[k]) => (Tried(k) /\ ~Ok(k))
          /\ \A k \in 1..3 : k > resp.rule => ~Tried(k)
          /\ (pc = "done" /\ resp.rule \in 1..3) =>
                (matched[resp.rule] /\ Ok(resp.rule))
          /\ (pc = "raised" /\ resp.rule \in 1..2) => Ok(resp.rule)
          /\ (pc = "raised" /\ resp.rule = 3) => matched[3]

C2_Witness ==
    /\ route = "chatbot"
    /\ pc = "done"
    /\ resp.kind = "rateondate"
    /\ Len(calls) = 2
    /\ calls[1].rule = 1
    /\ ~CallOk(calls[1])

\* C3: /chatbot never raises, whatever the message and the upstream reply.
C3_ChatbotTotal == route = "chatbot" => pc # "raised"

\* the amount argument is omitted, not a number, or zero
MissingOrZero(arg) ==
    \/ ~arg.present
    \/ ParseFloat(arg.value).kind = "none"
    \/ ParseFloat(arg.value).kind = "num" /\ ParseFloat(arg.value).digits = 0

\* C4: /convert with the amount omitted, not parseable or zero answers 400
\* "Missing amount" without an upstream call; with any other amount it makes
\* exactly one upstream call.
C4_MissingAmount ==
    (route = "convert" /\ Finished) =>
      IF MissingOrZero(req.amount)
      THEN pc = "done" /\ resp = ErrorResp(400, "Missing amount") /\ calls = << >>
      ELSE Len(calls) = 1 /\ resp.status # 400

C4_Witness ==
    /\ route = "convert"
    /\ pc = "done"
    /\ req.amount = Given(<<"0",".","0">>)
    /\ resp.status = 400

\* C5: the sampled series of /historical has at most maxPoints + 1 points.
C5_SampleBound ==
    (route = "historical" /\ pc = "done" /\ resp.kind = "historical") =>
      Len(resp.dates) <= MaxPoints + 1

\* C6: when an upstream reply has no "rates" field the route answers with
\* the "No data available" error and makes no further upstream call.
C6_NoRatesSurfaced ==
    (Finished /\ \E i \in 1..Len(calls) : ~calls[i].hasRates) =>
      /\ pc = "done"
      /\ resp.kind = "error"
      /\ resp.error = "No data available"
      /\ Len(calls) = 1

\* the elements of a sampler output, without their indices
Items(kept) == [ k \in 1..Len(kept) |-> kept[k][2] ]

\* C7 as stated: for a series longer than maxPoints, sampling the sampled
\* series again gives a strictly shorter series.
C7_ResampleShrinks ==
    (route = "historical" /\ pc = "done" /\ resp.kind = "historical"
        /\ calls[1].n > MaxPoints) =>
      Len(Sample(resp.dates, MaxPoints)) < Len(resp.dates)

\* C7, amended: sampling a sampled series again at the same maxPoints is
\* always a no-op, sample(sample(series)) = sample(series), also for a
\* series longer than maxPoints (the sampled series has fewer than
\* 2 * maxPoints points, so its step is 1).
C7_ResampleIsNoOp ==
    (route = "historical" /\ pc = "done" /\ resp.kind = "historical") =>
      /\ Items(Sample(resp.dates, MaxPoints)) = resp.dates
      /\ Len(resp.dates) < 2 * MaxPoints

C7_Witness ==
    /\ route = "historical"
    /\ pc = "done"
    /\ resp.kind = "historical"
    /\ calls[1].n > 2 * MaxPoints
    /\ Len(resp.dates) < calls[1].n

\* C8: every from / to code sent upstream is three upper-case letters.
C8_CodesNormalized ==
    \A i \in 1..Len(calls) : IsCode3(calls[i].from) /\ IsCode3(calls[i].to)

\* C9: /historical resolves the lower-cased range token, with end = today:
\* 7d, 7days -> 7 days back; 30d, 1m, 30days -> 30 days back; 365d, 1y,
\* year -> 365 days back; all, max -> 1999-01-04; any other token -> 400
\* "Invalid range" and no upstream call.
C9_RangeResolution ==
    (route = "historical" /\ Finished) =>
      LET token == Lower(IF req.range.present THEN req.range.value ELSE <<"7","d">>)
          back == IF token \in { <<"7","d">>, <<"7","d","a","y","s">> } THEN 7
                  ELSE IF token \in { <<"3","0","d">>, <<"1","m">>,
                                      <<"3","0","d","a","y","s">> } THEN 30
                  ELSE IF token \in { <<"3","6","5","d">>, <<"1","y">>,
                                      <<"y","e","a","r">> } THEN 365
                  ELSE 0
          fixed == token \in { <<"a","l","l">>, <<"m","a","x">> }
      IN  IF back > 0
          THEN /\ Len(calls) = 1
               /\ calls[1].arg[2] = req.today
               /\ ValidDate(calls[1].arg[1])
               /\ ToOrdinal(calls[1].arg[1]) = ToOrdinal(req.today) - back
          ELSE IF fixed
          THEN /\ Len(calls) = 1
               /\ calls[1].arg = << << 1999, 1, 4 >>, req.today >>
          ELSE /\ calls = << >>
               /\ resp = ErrorResp(400, "Invalid range. Use 7d, 30d/1m, 365d/1y, or all/max")

C9_Witness ==
    /\ route = "historical"
    /\ Finished
    /\ req.range = Given(<<"1","M">>)
    /\ req.today = << 2024, 3, 1 >>
    /\ Len(calls) = 1
    /\ calls[1].arg = << << 2024, 1, 31 >>, << 2024, 3, 1 >> >>

\* C10: the sampled series is exactly the elements of the date-sorted input
\* at the indices i with i mod stride = 0, stride = max(1, n div maxPoints),
\* in ascending order, each date with its own rate: ceil(n / stride) points,
\* starting with the first element when there is one.
C10_StrideSample ==
    (route = "historical" /\ pc = "done" /\ resp.kind = "historical") =>
      LET n == calls[1].n
          stride == IF n \div MaxPoints >= 1 THEN n \div MaxPoints ELSE 1
      IN  /\ Len(resp.dates) = (n + stride - 1) \div stride
          /\ Len(resp.rates) = Len(resp.dates)
          /\ \A k \in 1..Len(resp.dates) :
                /\ resp.dates[k] = (k - 1) * stride + 1
                /\ resp.rates[k] = RateOf(resp.dates[k])
          /\ n > 0 => (Len(resp.dates) > 0 /\ resp.dates[1] = 1)

C10_Witness ==
    /\ route = "historical"
    /\ pc = "done"
    /\ resp.kind = "historical"
    /\ calls[1].n = 2 * MaxPoints + 1
    /\ Len(resp.dates) = MaxPoints + 1
    /\ resp.dates[2] = 3

=============================================================================
